---- MODULE Spec2Model ----
(***************************************************************************)
(* Model of skills/vault-search/scripts/search.py: the hybrid retrieval    *)
(* function search(query, db_path, n_results, folder, where).              *)
(*                                                                         *)
(* Text values (folders, chunk texts, stored tags) are sequences of        *)
(* one-character strings so that slicing, LIKE matching and JSON parsing   *)
(* are computed character by character.  A nullable value (a SQL column    *)
(* or an optional Python argument) is a record [null, v].                  *)
(***************************************************************************)
EXTENDS Integers, Sequences, FiniteSets, TLC

\* ------------------------------------------------------------------ bounds
MaxChunks == 4
MaxN == 2
MaxDist == 1
MaxTextLen == 302

\* --------------------------------------------------------- nullable values
Null == [null |-> TRUE, v |-> <<>>]
Str(s) == [null |-> FALSE, v |-> s]
\* Python truthiness of an optional string argument: None and "" are falsy.
Truthy(x) == ~x.null /\ Len(x.v) > 0

Min(a, b) == IF a <= b THEN a ELSE b

\* ------------------------------------------------------------ SQLite LIKE
\* ASCII case folding, as SQLite's default LIKE does.
Lower(c) ==
  CASE c = "W" -> "w"
    [] c = "A" -> "a"
    [] c = "B" -> "b"
    [] OTHER -> c

\* SQLite's LIKE with no ESCAPE: '%' matches any run of characters, '_' any
\* single character, every other character matches itself ignoring ASCII case.
RECURSIVE LikeMatch(_, _)
LikeMatch(pat, s) ==
  IF Len(pat) = 0 THEN Len(s) = 0
  ELSE IF Head(pat) = "%"
    THEN LikeMatch(Tail(pat), s) \/ (Len(s) > 0 /\ LikeMatch(pat, Tail(s)))
  ELSE IF Len(s) = 0 THEN FALSE
  ELSE IF Head(pat) = "_" THEN LikeMatch(Tail(pat), Tail(s))
  ELSE Lower(Head(pat)) = Lower(Head(s)) /\ LikeMatch(Tail(pat), Tail(s))

\* Three-valued SQL truth: "T", "F" or "N" (NULL).
\* n.folder LIKE '<folder>%'
FolderClause(folder, col) ==
  IF col.null THEN "N"
  ELSE IF LikeMatch(folder \o <<"%">>, col.v) THEN "T" ELSE "F"

\* Literal, case-sensitive prefix test (what "starts with" means).
StartsWith(s, p) == Len(p) <= Len(s) /\ SubSeq(s, 1, Len(p)) = p

\* ---------------------------------------------------------------- snippet
SnippetMax == 300
Ellipsis == <<".", ".", ".">>

SnippetGE(t) ==
  IF Len(t) >= SnippetMax THEN SubSeq(t, 1, SnippetMax) \o Ellipsis ELSE t

\* row[3][:300] + "..." if len(row[3]) > 300 else row[3]
Snippet(t) ==
  IF Len(t) > SnippetMax THEN SubSeq(t, 1, SnippetMax) \o Ellipsis ELSE t

\* ------------------------------------------------------------- json.loads
\* A decoded JSON value.  kind is "null", "str" or "list"; chars holds a
\* string's characters, items a list's elements.
JNull == [kind |-> "null", items |-> <<>>, chars |-> <<>>]
JStr(cs) == [kind |-> "str", items |-> <<>>, chars |-> cs]
JList(xs) == [kind |-> "list", items |-> xs, chars |-> <<>>]

ParseFail == [ok |-> FALSE, val |-> JNull, next |-> 0]
ParseOk(v, k) == [ok |-> TRUE, val |-> v, next |-> k]

\* Index of the first non-blank character at or after i (Len(s)+1 if none).
RECURSIVE SkipWs(_, _)
SkipWs(s, i) ==
  IF i <= Len(s) /\ s[i] = " " THEN SkipWs(s, i + 1) ELSE i

\* Index of the first '"' at or after i (0 if none).
RECURSIVE FindQuote(_, _)
FindQuote(s, i) ==
  IF i > Len(s) THEN 0
  ELSE IF s[i] = "\"" THEN i
  ELSE FindQuote(s, i + 1)

RECURSIVE ParseValue(_, _)
RECURSIVE ParseItems(_, _, _, _)

\* One JSON value starting at s[i].
ParseValue(s, i) ==
  IF i > Len(s) THEN ParseFail
  ELSE IF s[i] = "n" THEN
    IF i + 3 <= Len(s) /\ SubSeq(s, i, i + 3) = <<"n", "u", "l", "l">>
      THEN ParseOk(JNull, i + 4)
      ELSE ParseFail
  ELSE IF s[i] = "\"" THEN
    LET j == FindQuote(s, i + 1) IN
      IF j = 0 THEN ParseFail ELSE ParseOk(JStr(SubSeq(s, i + 1, j - 1)), j + 1)
  ELSE IF s[i] = "[" THEN ParseItems(s, SkipWs(s, i + 1), <<>>, TRUE)
  ELSE ParseFail

\* The elements of an array whose '[' has been read; i is at a non-blank.
\* first: no element has been read yet, so ']' may close an empty array.
ParseItems(s, i, acc, first) ==
  IF i > Len(s) THEN ParseFail
  ELSE IF first /\ s[i] = "]" THEN ParseOk(JList(acc), i + 1)
  ELSE
    LET r == ParseValue(s, i) IN
      IF ~r.ok THEN ParseFail
      ELSE
        LET k == SkipWs(s, r.next) IN
          IF k > Len(s) THEN ParseFail
          ELSE IF s[k] = "," THEN
            ParseItems(s, SkipWs(s, k + 1), Append(acc, r.val), FALSE)
          ELSE IF s[k] = "]" THEN ParseOk(JList(Append(acc, r.val)), k + 1)
          ELSE ParseFail

\* json.loads(s): one value, surrounded by optional blanks; ok = FALSE stands
\* for json.JSONDecodeError.
JsonLoads(s) ==
  LET r == ParseValue(s, SkipWs(s, 1)) IN
    IF r.ok /\ SkipWs(s, r.next) > Len(s) THEN r ELSE ParseFail

\* json.loads(row[10]) if row[10] else []
Tags(col) ==
  IF Truthy(col) THEN JsonLoads(col.v) ELSE ParseOk(JList(<<>>), 0)

\* json.dumps of a list of strings, as an index build stores it: ["a", "b"].
RECURSIVE JsonDumpsItems(_)
JsonDumpsItems(L) ==
  IF Len(L) = 0 THEN <<>>
  ELSE <<"\"">> \o Head(L) \o <<"\"">>
       \o (IF Len(L) > 1 THEN <<",", " ">> ELSE <<>>)
       \o JsonDumpsItems(Tail(L))

JsonDumps(L) == <<"[">> \o JsonDumpsItems(L) \o <<"]">>

\* The decoded form of a list of strings.
ListVal(L) == JList([i \in 1..Len(L) |-> JStr(L[i])])

\* ------------------------------------------------------------- the index
\* Columns holding short atomic text (title, status, ...) are [null, v] with
\* v a string; NullS is their NULL.
NullS == [null |-> TRUE, v |-> ""]
StrS(x) == [null |-> FALSE, v |-> x]

EMBEDDING_DIM == 384

Paths == <<"p1", "p2", "p3">>

\* Stored tags, as an index build serializes them.
TagsAB == JsonDumps(<< <<"a">>, <<"b">> >>)

\* One row of vec_chunks.
Chunk(id, path, text, d) ==
  [chunk_id |-> id, path |-> path, heading |-> StrS("H"),
   chunk_text |-> text, distance |-> d]

\* One row of notes.
Note(path, folder, status, tags) ==
  [path |-> path, title |-> StrS("T"), folder |-> folder, status |-> status,
   priority |-> NullS, due |-> NullS, tags |-> tags]

\* The documents of the ranking scenarios: p1 under "Wa", open, tagged;
\* p2 under "wb", closed, no tags; p3 has chunks but no notes row.
BaseNotes ==
  { Note("p1", Str(<<"W", "a">>), StrS("open"), Str(TagsAB)),
    Note("p2", Str(<<"w", "b">>), StrS("closed"), Null) }

\* A text of the given length, made of 'a's, optionally ending in "...".
TextOf(len, dots) ==
  [i \in 1..len |-> IF dots /\ i > len - Len(Ellipsis) THEN "." ELSE "a"]

TextLens == {0, 1, Len(Ellipsis)} \cup ((SnippetMax - 1)..MaxTextLen)
Texts == {TextOf(l, d) : l \in TextLens, d \in BOOLEAN}

\* Stored values of notes.tags: NULL, the empty string, serialized lists,
\* the JSON text null, a JSON string, and text that is not JSON.
TagLists ==
  { <<>>, << <<"a">> >>, << <<"a">>, <<"b">> >>, << <<"b">>, <<"a">> >>,
    << <<"a", "b">>, <<>> >> }
StoredTags ==
  {Null, Str(<<>>)}
    \cup {Str(JsonDumps(L)) : L \in TagLists}
    \cup { Str(<<"[", "\"", "b", "\"", ",", "\"", "a", "\"", "]">>),
           Str(<<" ", "[", " ", "]", " ">>),
           Str(<<"n", "u", "l", "l">>),
           Str(<<"\"", "a", "\"">>),
           Str(<<"[", "n", "u", "l", "l", "]">>),
           Str(<<"[", "[", "]", "]">>),
           Str(<<"[", "\"", "a", "\"", ",", "]">>),
           Str(<<"a">>),
           Str(<<"[", "\"", "a", "\"">>) }

\* ---------------------------------------------------------- the arguments
FolderArgs == {Null, Str(<<>>), Str(<<"W">>), Str(<<"_">>)}

WOpen == "status = 'open'"
WIsNull == "status IS NULL"
WBad == "status ="
WhereArgs == {NullS, StrS(""), StrS(WOpen), StrS(WIsNull), StrS(WBad)}

\* Python truthiness of the where argument.
TruthyS(x) == ~x.null /\ x.v # ""

\* Whether SQLite can prepare the statement with this fragment spliced in.
WellFormed(w) == w \in {WOpen, WIsNull}

\* The value SQLite gives the spliced fragment on a joined row.
EvalWhere(w, row) ==
  CASE w = WOpen ->
         IF row.status.null THEN "N"
         ELSE IF row.status.v = "open" THEN "T" ELSE "F"
    [] w = WIsNull -> IF row.status.null THEN "T" ELSE "F"
    [] OTHER -> "N"

\* ------------------------------------------------------ the SQL statement
\* where_clauses: the folder clause, then the caller's fragment.
WhereClauses(f, w) ==
  (IF Truthy(f) THEN <<[kind |-> "folder", pat |-> f.v, frag |-> ""]>> ELSE <<>>)
    \o (IF TruthyS(w) THEN <<[kind |-> "where", pat |-> <<>>, frag |-> w.v]>>
        ELSE <<>>)

EvalClause(c, row) ==
  IF c.kind = "folder" THEN FolderClause(c.pat, row.folder)
  ELSE EvalWhere(c.frag, row)

WherePassesAny(clauses, row) ==
  Len(clauses) = 0 \/ \E i \in 1..Len(clauses) : EvalClause(clauses[i], row) = "T"

\* "WHERE " + " AND ".join(where_clauses): a row is kept when the conjunction
\* is true, that is when every clause is true (neither false nor NULL).
WherePasses(clauses, row) ==
  \A i \in 1..Len(clauses) : EvalClause(clauses[i], row) = "T"

FetchLimitNoOverfetch(n, clauses) == n

\* fetch_limit = n_results * 3 if where_clauses else n_results
FetchLimit(n, clauses) == IF Len(clauses) > 0 THEN n * 3 ELSE n

\* The inner SELECT: the k nearest chunks (all of them if fewer); which of
\* several equidistant chunks fall inside is the engine's choice.
KnnScan(chunks, k) ==
  LET ids == 1..Len(chunks) IN
    { W \in SUBSET ids :
        /\ Cardinality(W) = Min(k, Len(chunks))
        /\ \A a \in W : \A b \in ids \ W :
             chunks[a].distance <= chunks[b].distance }

\* LEFT JOIN notes n ON c.path = n.path
LeftJoin(c, ns) ==
  LET m == IF \E x \in ns : x.path = c.path
             THEN CHOOSE x \in ns : x.path = c.path
             ELSE Note(c.path, Null, NullS, Null)
      hit == \E x \in ns : x.path = c.path
  IN [chunk_id |-> c.chunk_id, path |-> c.path, heading |-> c.heading,
      chunk_text |-> c.chunk_text, distance |-> c.distance,
      title |-> IF hit THEN m.title ELSE NullS,
      folder |-> m.folder, status |-> m.status, priority |-> m.priority,
      due |-> m.due, tags |-> m.tags]

\* Every enumeration of a finite set as a sequence.
Orderings(S) ==
  { s \in [1..Cardinality(S) -> S] :
      \A i \in 1..Cardinality(S) : \A j \in 1..Cardinality(S) :
        s[i] = s[j] => i = j }

AnyOrder(S) == Orderings(S)

\* ORDER BY c.distance: ascending; the order among equal distances is the
\* engine's choice.
OrderByDistance(S) ==
  { s \in Orderings(S) :
      \A i \in 1..(Len(s) - 1) : s[i].distance <= s[i + 1].distance }

\* The rows the statement can return for one candidate window W.
Statement(chunks, ns, clauses, W) ==
  OrderByDistance(
    { r \in {LeftJoin(chunks[i], ns) : i \in W} : WherePasses(clauses, r) })

\* ----------------------------------------------------- building results
TruncateAll(rs, n) == rs

TruncateOffByOne(rs, n) == SubSeq(rs, 1, Min(n + 1, Len(rs)))

\* rows[:n_results], for n_results >= 1
Truncate(rs, n) == SubSeq(rs, 1, Min(n, Len(rs)))

\* The dict built for one row.
Result(row) ==
  [chunk_id |-> row.chunk_id, path |-> row.path, heading |-> row.heading,
   snippet |-> Snippet(row.chunk_text), distance |-> row.distance,
   title |-> row.title, folder |-> row.folder, status |-> row.status,
   priority |-> row.priority, due |-> row.due, tags |-> Tags(row.tags).val]

\* ------------------------------------------------------------------ state
VARIABLES
  db_exists,    \* whether the file at db_path exists
  index_dim,    \* the dimension of the vectors stored in vec_chunks
  vec_chunks,   \* the chunk table, for the query at hand: row i has chunk_id i
  notes,        \* the document metadata table, path its key
  n_results, folder, where,   \* the arguments of the call
  pc,           \* position in search
  conn,         \* "none", "open" or "closed"
  fetch_limit,  \* the LIMIT bound to the inner SELECT
  cands,        \* the chunk ids the inner SELECT produced
  rows,         \* cursor.fetchall()
  results       \* the list search returns

vars ==
  <<db_exists, index_dim, vec_chunks, notes, n_results, folder, where, pc,
    conn, fetch_limit, cands, rows, results>>

index == <<db_exists, index_dim, vec_chunks, notes>>
args == <<n_results, folder, where>>

\* ------------------------------------------------------------ initial state
\* Chunk kinds of the ranking scenarios: every path at every distance,
\* numbered by distance first.
NumKinds == Len(Paths) * (MaxDist + 1)
KindChunk(id, k) ==
  Chunk(id, Paths[(k % Len(Paths)) + 1], <<"a">>, k \div Len(Paths))

\* Chunk ids are labels the code never inspects, so each multiset of chunk
\* kinds is taken once, ids given in kind order.
RankIndexes ==
  UNION { { [i \in 1..k |-> KindChunk(i, f[i])] :
              f \in { g \in [1..k -> 0..(NumKinds - 1)] :
                        \A i \in 1..(k - 1) : g[i] <= g[i + 1] } } :
          k \in 0..MaxChunks }

InitCall ==
  /\ n_results = 0 /\ folder = Null /\ where = NullS
  /\ pc = "start" /\ conn = "none"
  /\ fetch_limit = 0 /\ cands = {} /\ rows = <<>> /\ results = <<>>

\* Ranking and filtering: any small index over the base documents.
InitRank ==
  /\ db_exists = TRUE /\ index_dim = EMBEDDING_DIM
  /\ vec_chunks \in RankIndexes
  /\ notes = BaseNotes

\* Snippets: one chunk, of any text.
InitText ==
  /\ db_exists = TRUE /\ index_dim = EMBEDDING_DIM
  /\ vec_chunks \in { <<Chunk(1, "p1", t, 0)>> : t \in Texts }
  /\ notes = BaseNotes

\* Tags: one chunk of a document with any stored tags value.
InitTags ==
  /\ db_exists = TRUE /\ index_dim = EMBEDDING_DIM
  /\ vec_chunks = <<Chunk(1, "p1", <<"a">>, 0)>>
  /\ notes \in { {Note("p1", Str(<<"W", "a">>), StrS("open"), t)} :
                   t \in StoredTags }

\* An index built with another embedding model, and a missing database.
InitOther ==
  /\ vec_chunks = <<Chunk(1, "p1", <<"a">>, 0)>>
  /\ notes = BaseNotes
  /\ \/ db_exists = TRUE /\ index_dim = EMBEDDING_DIM + 1
     \/ db_exists = FALSE /\ index_dim = EMBEDDING_DIM

Init == InitCall /\ (InitRank \/ InitText \/ InitTags \/ InitOther)

\* ---------------------------------------------------------------- actions
\* search is entered; a missing database prints and exits, otherwise the
\* connection is opened.
Start ==
  /\ pc = "start"
  /\ \E n \in 1..MaxN : \E f \in FolderArgs : \E w \in WhereArgs :
       /\ n_results' = n /\ folder' = f /\ where' = w
  /\ IF db_exists
       THEN conn' = "open" /\ pc' = "load_extension"
       ELSE conn' = "none" /\ pc' = "exited"
  /\ UNCHANGED <<index, fetch_limit, cands, rows, results>>

\* sqlite_vec.load(conn) succeeds.
LoadExtension ==
  /\ pc = "load_extension"
  /\ pc' = "embed"
  /\ UNCHANGED <<index, args, conn, fetch_limit, cands, rows, results>>

\* sqlite_vec.load(conn) raises: the exception leaves search.
LoadExtensionRaises ==
  /\ pc = "load_extension"
  /\ pc' = "raised"
  /\ UNCHANGED <<index, args, conn, fetch_limit, cands, rows, results>>

\* The query is embedded and packed, the statement and fetch_limit built.
Embed ==
  /\ pc = "embed"
  /\ fetch_limit' = FetchLimit(n_results, WhereClauses(folder, where))
  /\ pc' = "execute"
  /\ UNCHANGED <<index, args, conn, cands, rows, results>>

\* The embedding function raises: the exception leaves search.
EmbedRaises ==
  /\ pc = "embed"
  /\ pc' = "raised"
  /\ UNCHANGED <<index, args, conn, fetch_limit, cands, rows, results>>

\* Whether conn.execute raises sqlite3.Error: a fragment SQLite cannot
\* parse, or a query vector of another dimension than the index.
ExecuteFails ==
  \/ TruthyS(where) /\ ~WellFormed(where.v)
  \/ index_dim # EMBEDDING_DIM

\* conn.execute and fetchall succeed.
Execute ==
  /\ pc = "execute"
  /\ ~ExecuteFails
  /\ \E W \in KnnScan(vec_chunks, fetch_limit) :
       \E rs \in Statement(vec_chunks, notes, WhereClauses(folder, where), W) :
         /\ cands' = W
         /\ rows' = rs
  /\ pc' = "build"
  /\ UNCHANGED <<index, args, conn, fetch_limit, results>>

\* except sqlite3.Error: print, close, exit.
ExecuteError ==
  /\ pc = "execute"
  /\ ExecuteFails
  /\ conn' = "closed"
  /\ pc' = "exited"
  /\ UNCHANGED <<index, args, fetch_limit, cands, rows, results>>

\* Whether building the result of some row of rows[:n_results] raises.
BuildFails ==
  \E i \in 1..Len(Truncate(rows, n_results)) : ~Tags(rows[i].tags).ok

\* The loop over rows[:n_results], then conn.close() and return.
BuildResults ==
  /\ pc = "build"
  /\ ~BuildFails
  /\ results' = [i \in 1..Len(Truncate(rows, n_results)) |->
                   Result(Truncate(rows, n_results)[i])]
  /\ conn' = "closed"
  /\ pc' = "returned"
  /\ UNCHANGED <<index, args, fetch_limit, cands, rows>>

\* json.loads raises inside the loop: the exception leaves search.
BuildRaises ==
  /\ pc = "build"
  /\ BuildFails
  /\ pc' = "raised"
  /\ UNCHANGED <<index, args, conn, fetch_limit, cands, rows, results>>

Next ==
  \/ Start
  \/ LoadExtension
  \/ LoadExtensionRaises
  \/ Embed
  \/ EmbedRaises
  \/ Execute
  \/ ExecuteError
  \/ BuildResults
  \/ BuildRaises

Spec == Init /\ [][Next]_vars

Terminal == {"returned", "exited", "raised"}

\* ----------------------------------------------------------- properties
FilterActive == Truthy(folder) \/ TruthyS(where)

HasNote(path) == \E m \in notes : m.path = path

\* Whether a record with folder and status fields passes the filters of the
\* call, stated from the arguments.
PassesFilters(r) ==
  /\ Truthy(folder) => FolderClause(folder.v, r.folder) = "T"
  /\ TruthyS(where) => EvalWhere(where.v, r) = "T"

\* The chunks of the whole index whose joined metadata passes the filters.
PassingIndex ==
  { i \in 1..Len(vec_chunks) : PassesFilters(LeftJoin(vec_chunks[i], notes)) }

\* The candidates of the scan whose joined metadata passes the filters.
PassingCands ==
  { i \in cands : PassesFilters(LeftJoin(vec_chunks[i], notes)) }

ResultIds == { results[i].chunk_id : i \in 1..Len(results) }

\* C1: a call that returns, returns at most n_results results.
C1_AtMostN == pc = "returned" => Len(results) <= n_results

\* C1 witness: a filtered call whose statement produced more than n_results
\* rows returned exactly n_results of them.
C1_Witness ==
  /\ pc = "returned" /\ FilterActive
  /\ Len(rows) > n_results /\ Len(results) = n_results

\* C2 (as claimed): with a filter active, search returns n_results results
\* whenever that many chunks of the whole index pass the filter, and all the
\* passing chunks otherwise.
C2_NeverUnderFills ==
  (pc = "returned" /\ FilterActive)
    => Len(results) = Min(n_results, Cardinality(PassingIndex))

\* C3 (as claimed): in no terminal state of search is the connection open.
C3_ClosedOnEveryExit == pc \in Terminal => conn # "open"

\* C4 (as claimed): with a folder filter F, every result has a non-null
\* folder of which F is a literal, case-sensitive prefix.
C4_FolderLiteralPrefix ==
  (pc = "returned" /\ Truthy(folder))
    => \A i \in 1..Len(results) :
         /\ ~results[i].folder.null
         /\ StartsWith(results[i].folder.v, folder.v)

\* C5: the returned list is in ascending order of distance.
C5_SortedByDistance ==
  pc = "returned"
    => \A i \in 1..(Len(results) - 1) :
         results[i].distance <= results[i + 1].distance

\* C5 witness: a filtered call returned two results at different distances.
C5_Witness ==
  /\ pc = "returned" /\ FilterActive
  /\ Len(results) >= 2
  /\ results[1].distance < results[Len(results)].distance

\* The result counts of the same call made with no filter.
UnfilteredCounts ==
  { Len(Truncate(rs, n_results)) :
      rs \in UNION { Statement(vec_chunks, notes, <<>>, W) :
                       W \in KnnScan(vec_chunks, FetchLimit(n_results, <<>>)) } }

\* C6: a filtered call returns no more results than the same call with no
\* filter.
C6_FilterNeverIncreases ==
  (pc = "returned" /\ FilterActive)
    => \A c \in UnfilteredCounts : Len(results) <= c

\* C6 witness: a filtered call returned some results, fewer than the
\* unfiltered call returns.
C6_Witness ==
  /\ pc = "returned" /\ FilterActive
  /\ Len(results) >= 1
  /\ \A c \in UnfilteredCounts : Len(results) < c

\* C7: every result's metadata satisfies the where predicate and the folder
\* clause (their conjunction), and a chunk with no metadata record is returned
\* only when no folder filter is active and the where predicate, if any, is
\* true of a record of NULLs.
C7_ResultsSatisfyPredicate ==
  pc = "returned"
    => \A i \in 1..Len(results) :
         /\ TruthyS(where) => EvalWhere(where.v, results[i]) = "T"
         /\ Truthy(folder) => FolderClause(folder.v, results[i].folder) = "T"
         /\ ~HasNote(results[i].path)
              => /\ ~Truthy(folder)
                 /\ TruthyS(where)
                      => EvalWhere(where.v, Note(results[i].path, Null, NullS, Null)) = "T"

\* C7 witness: a call with both filters returned a result while the statement
\* rejected one of the candidates.
C7_Witness ==
  /\ pc = "returned" /\ Truthy(folder) /\ TruthyS(where)
  /\ Len(results) >= 1
  /\ Len(rows) < Cardinality(cands)

\* t[:k]
First(t, k) == SubSeq(t, 1, Min(k, Len(t)))

\* C8: a snippet is at most 303 characters long; it is the first 300
\* characters of the chunk text followed by "..." exactly when the text is
\* longer than 300 characters, and the text itself otherwise.
C8_Snippet ==
  pc = "returned"
    => \A i \in 1..Len(results) :
         LET t == vec_chunks[results[i].chunk_id].chunk_text
             s == results[i].snippet
         IN /\ Len(s) <= SnippetMax + Len(Ellipsis)
            /\ (Len(t) > SnippetMax) <=> (s = First(t, SnippetMax) \o Ellipsis)
            /\ Len(t) <= SnippetMax => s = t

\* C8 witness: a result was built from a text of 301 characters.
C8_Witness ==
  /\ pc = "returned" /\ Len(results) = 1
  /\ Len(vec_chunks[results[1].chunk_id].chunk_text) = SnippetMax + 1
  /\ Len(results[1].snippet) = SnippetMax + Len(Ellipsis)

\* The stored tags of a result's document (NULL when it has no record).
StoredTagsOf(path) ==
  IF HasNote(path) THEN (CHOOSE m \in notes : m.path = path).tags ELSE Null

\* C9 (as claimed): the tags of a result are never null, for any stored
\* value; an absent value (NULL or the empty string) gives the empty
\* sequence and a serialized list gives its elements in order.
C9_TagsNeverNull ==
  pc = "returned"
    => \A i \in 1..Len(results) :
         LET stored == StoredTagsOf(results[i].path) IN
           /\ results[i].tags.kind # "null"
           /\ ~Truthy(stored) => results[i].tags = JList(<<>>)
           /\ \A L \in TagLists :
                (~stored.null /\ stored.v = JsonDumps(L))
                  => results[i].tags = ListVal(L)

\* C10: the scan is asked for 3 * n_results candidates exactly when a filter
\* is active and for n_results otherwise; the returned list is the first
\* n_results, by ascending distance, of the candidates that pass the filters;
\* with no filter it is the min(n_results, total) nearest chunks.
C10_WindowAndPrefix ==
  /\ pc \in {"execute", "build", "returned"}
       => /\ (fetch_limit = 3 * n_results) <=> FilterActive
          /\ ~FilterActive => fetch_limit = n_results
  /\ pc = "returned"
       => /\ Cardinality(cands) = Min(fetch_limit, Len(vec_chunks))
          /\ \A a \in cands : \A b \in (1..Len(vec_chunks)) \ cands :
               vec_chunks[a].distance <= vec_chunks[b].distance
          /\ ResultIds \subseteq PassingCands
          /\ Cardinality(ResultIds) = Len(results)
          /\ Len(results) = Min(n_results, Cardinality(PassingCands))
          /\ \A i \in 1..(Len(results) - 1) :
               results[i].distance <= results[i + 1].distance
          /\ \A a \in ResultIds : \A b \in PassingCands \ ResultIds :
               vec_chunks[a].distance <= vec_chunks[b].distance
          /\ ~FilterActive
               => /\ Len(results) = Min(n_results, Len(vec_chunks))
                  /\ \A a \in ResultIds : \A b \in (1..Len(vec_chunks)) \ ResultIds :
                       vec_chunks[a].distance <= vec_chunks[b].distance

\* C10 witness: a filtered call scanned more than n_results candidates,
\* rejected some, and still returned n_results results.
C10_Witness ==
  /\ pc = "returned" /\ FilterActive
  /\ fetch_limit = 3 * n_results
  /\ Cardinality(cands) > n_results
  /\ Len(rows) < Cardinality(cands)
  /\ Len(results) = n_results

====
